---------------------------- MODULE Spec2Model ----------------------------
(***************************************************************************)
(* did:key identifiers of go-sonr/crypto, keys/parsers/key_parser.go:      *)
(* NewKeyDID, DIDKey.MulticodecType, DIDKey.String, DIDKey.VerifyKey and   *)
(* Parse, together with the library calls they make (go-varint,            *)
(* go-multibase, libp2p core/crypto), modelled by what those calls do.     *)
(*                                                                         *)
(* A byte sequence is a sequence of numbers 0..255; a Go string is a       *)
(* sequence of one-character strings.                                      *)
(*                                                                         *)
(* Errors carry the names of the specification's taxonomy; the return      *)
(* statement that produces each is named where it is modelled.             *)
(***************************************************************************)
EXTENDS Integers, Sequences, FiniteSets, TLC

(***************************************************************************)
(* Bounds of the model.                                                    *)
(***************************************************************************)
\* byte patterns 0..NumPatterns used to fill raw key material
NumPatterns == 1

(***************************************************************************)
(* Constants of key_parser.go (lines 15-24).                               *)
(***************************************************************************)
KeyPrefix == <<"d", "i", "d", ":", "k", "e", "y">>
MulticodecKindRSAPubKey == 4613
MulticodecKindEd25519PubKey == 237
MulticodecKindSecp256k1PubKey == 4614

(***************************************************************************)
(* strings.HasPrefix and strings.TrimPrefix.                               *)
(***************************************************************************)
HasPrefix(s, p) ==
    /\ Len(s) >= Len(p)
    /\ SubSeq(s, 1, Len(p)) = p

TrimPrefix(s, p) ==
    IF HasPrefix(s, p) THEN SubSeq(s, Len(p) + 1, Len(s)) ELSE s

(***************************************************************************)
(* go-varint: UvarintSize, PutUvarint (encoding/binary) and FromUvarint.   *)
(***************************************************************************)
RECURSIVE PutUvarint(_)
PutUvarint(x) ==
    IF x >= 128 THEN <<(x % 128) + 128>> \o PutUvarint(x \div 128)
    ELSE <<x>>

RECURSIVE UvarintSize(_)
UvarintSize(x) ==
    IF x >= 128 THEN 1 + UvarintSize(x \div 128) ELSE 1

\* x | uint64(b & 0x7f) << s: the shifted bits are disjoint from x, so the
\* or is a sum; a zero payload leaves x as it is.
ShiftOr(x, b, s) ==
    IF b % 128 = 0 THEN x ELSE x + (b % 128) * (2 ^ s)

\* the loop of FromUvarint from index i on, with the accumulator x and the
\* shift s; the result is [val, n, err].
RECURSIVE FromUvarintLoop(_, _, _, _)
FromUvarintLoop(buf, i, x, s) ==
    IF i >= Len(buf)
    THEN [val |-> 0, n |-> 0, err |-> "ErrUnderflow"]
    ELSE LET b == buf[i + 1] IN
         IF (i = 8 /\ b >= 128) \/ i >= 9
         THEN [val |-> 0, n |-> 0, err |-> "ErrOverflow"]
         ELSE IF b < 128
              THEN IF b = 0 /\ s > 0
                   THEN [val |-> 0, n |-> 0, err |-> "ErrNotMinimal"]
                   ELSE [val |-> ShiftOr(x, b, s), n |-> i + 1, err |-> "nil"]
              ELSE FromUvarintLoop(buf, i + 1, ShiftOr(x, b, s), s + 7)

FromUvarint(buf) == FromUvarintLoop(buf, 0, 0, 0)

(***************************************************************************)
(* Base conversion on digit sequences, as base58 does it: no number larger *)
(* than one digit times the base is ever formed.  The loops over the       *)
(* digits are unfolded by halving the range, the carry passing from the    *)
(* lower half to the upper.                                                *)
(***************************************************************************)
\* digits[lo..hi] * mul + carry in base `base`: the digits of the result
\* at lo..hi (least significant first) and the carry out of hi
RECURSIVE MulAddRange(_, _, _, _, _, _)
MulAddRange(digits, lo, hi, mul, carry, base) ==
    IF lo > hi THEN [out |-> <<>>, carry |-> carry]
    ELSE IF lo = hi
    THEN LET v == digits[lo] * mul + carry IN
         [out |-> <<v % base>>, carry |-> v \div base]
    ELSE LET mid == (lo + hi) \div 2
             l == MulAddRange(digits, lo, mid, mul, carry, base)
             r == MulAddRange(digits, mid + 1, hi, mul, l.carry, base)
         IN  [out |-> l.out \o r.out, carry |-> r.carry]

RECURSIVE CarryDigits(_, _)
CarryDigits(carry, base) ==
    IF carry = 0 THEN <<>>
    ELSE <<carry % base>> \o CarryDigits(carry \div base, base)

\* digits (least significant first) * mul + carry, in base `base`
MulAdd(digits, mul, carry, base) ==
    LET r == MulAddRange(digits, 1, Len(digits), mul, carry, base) IN
    r.out \o CarryDigits(r.carry, base)

\* acc (digits in base `to`, least significant first) extended by the digits
\* src[lo..hi] in base `from`, most significant first
RECURSIVE ConvertRange(_, _, _, _, _, _)
ConvertRange(src, lo, hi, acc, from, to) ==
    IF lo > hi THEN acc
    ELSE IF lo = hi THEN MulAdd(acc, from, src[lo], to)
    ELSE LET mid == (lo + hi) \div 2
             lower == ConvertRange(src, lo, mid, acc, from, to)
         IN  \* Len(lower) is taken so that lower is a value before the
             \* upper half is entered
             IF Len(lower) >= 0
             THEN ConvertRange(src, mid + 1, hi, lower, from, to)
             ELSE <<>>

\* the number whose digits in base `from` are src[i..], as digits in base
\* `to`, least significant first
Convert(src, i, from, to) == ConvertRange(src, i, Len(src), <<>>, from, to)

Reverse(s) == [i \in 1..Len(s) |-> s[Len(s) + 1 - i]]

RECURSIVE LeadingCount(_, _, _)
LeadingCount(s, i, z) ==
    IF i <= Len(s) /\ s[i] = z THEN 1 + LeadingCount(s, i + 1, z) ELSE 0

(***************************************************************************)
(* mr-tron/base58 with the Bitcoin alphabet.                               *)
(***************************************************************************)
BTCAlphabet ==
    <<"1", "2", "3", "4", "5", "6", "7", "8", "9",
      "A", "B", "C", "D", "E", "F", "G", "H", "J", "K", "L", "M", "N",
      "P", "Q", "R", "S", "T", "U", "V", "W", "X", "Y", "Z",
      "a", "b", "c", "d", "e", "f", "g", "h", "i", "j", "k",
      "m", "n", "o", "p", "q", "r", "s", "t", "u", "v", "w", "x", "y", "z">>

B58Index(c) ==
    IF \E k \in 1..58 : BTCAlphabet[k] = c
    THEN (CHOOSE k \in 1..58 : BTCAlphabet[k] = c) - 1
    ELSE -1

\* each leading zero byte is one "1"; the rest is the number in base 58
B58Encode(bin) ==
    LET zcount == LeadingCount(bin, 1, 0)
        digits == Reverse(Convert(bin, zcount + 1, 256, 58))
    IN  [i \in 1..zcount |-> "1"] \o
        [i \in 1..Len(digits) |-> BTCAlphabet[digits[i] + 1]]

B58Decode(str) ==
    IF \E i \in 1..Len(str) : B58Index(str[i]) = -1
    THEN [data |-> <<>>, err |-> "invalid base58 digit"]
    ELSE LET zcount == LeadingCount(str, 1, "1")
             vals == [i \in 1..Len(str) |-> B58Index(str[i])]
         IN  [data |-> [i \in 1..zcount |-> 0] \o
                       Reverse(Convert(vals, zcount + 1, 58, 256)),
              err |-> "nil"]

(***************************************************************************)
(* encoding/hex, which go-multibase uses for base16.                       *)
(***************************************************************************)
HexAlphabet ==
    <<"0", "1", "2", "3", "4", "5", "6", "7", "8", "9",
      "a", "b", "c", "d", "e", "f">>

HexUpper == <<"A", "B", "C", "D", "E", "F">>

\* hex.DecodeString takes both cases of a..f
HexIndex(c) ==
    IF \E k \in 1..16 : HexAlphabet[k] = c
    THEN (CHOOSE k \in 1..16 : HexAlphabet[k] = c) - 1
    ELSE IF \E k \in 1..6 : HexUpper[k] = c
    THEN (CHOOSE k \in 1..6 : HexUpper[k] = c) + 9
    ELSE -1

HexEncode(bin) ==
    [i \in 1..(2 * Len(bin)) |->
        IF i % 2 = 1 THEN HexAlphabet[(bin[(i + 1) \div 2] \div 16) + 1]
        ELSE HexAlphabet[(bin[i \div 2] % 16) + 1]]

HexDecode(str) ==
    IF \E i \in 1..Len(str) : HexIndex(str[i]) = -1
    THEN [data |-> <<>>, err |-> "invalid byte"]
    ELSE IF Len(str) % 2 = 1
    THEN [data |-> <<>>, err |-> "odd length hex string"]
    ELSE [data |-> [i \in 1..(Len(str) \div 2) |->
                       16 * HexIndex(str[2 * i - 1]) + HexIndex(str[2 * i])],
          err |-> "nil"]

(***************************************************************************)
(* go-multibase: Encode and Decode.  Of the library's table of encodings   *)
(* the model carries base16 ("f"), base16upper ("F") and base58btc ("z");  *)
(* every other first character used here is one the table does not hold.   *)
(***************************************************************************)
Base58BTC == "z"
Base16 == "f"
Base16Upper == "F"

mbEncode(base, data) ==
    IF base = Base58BTC THEN <<Base58BTC>> \o B58Encode(data)
    ELSE <<Base16>> \o HexEncode(data)

\* [enc, data, err]; err is "nil", "ErrUnsupportedEncoding" (no such
\* encoding) or the failure of the selected encoding's decoder
mbDecode(data) ==
    IF Len(data) = 0
    THEN [enc |-> "", data |-> <<>>, err |-> "zero length string"]
    ELSE LET enc == data[1]
             rest == SubSeq(data, 2, Len(data))
         IN  IF enc = Base58BTC
             THEN [enc |-> enc] @@ B58Decode(rest)
             ELSE IF enc = Base16 \/ enc = Base16Upper
             THEN [enc |-> enc] @@ HexDecode(rest)
             ELSE [enc |-> "", data |-> <<>>, err |-> "ErrUnsupportedEncoding"]

(***************************************************************************)
(* libp2p core/crypto.  A crypto.PubKey is an interface value: its Type(), *)
(* and what its Raw() returns (the bytes, or an error).  key_parser.go     *)
(* reads a key through these two methods only.                             *)
(***************************************************************************)
PubKey(t, raw) == [type |-> t, raw |-> raw, rawOK |-> TRUE]

\* the zero DIDKey: no key inside
NilKey == [type |-> "nil", raw |-> <<>>, rawOK |-> FALSE]

\* ed25519.PublicKeySize, which UnmarshalEd25519PublicKey demands
Ed25519PublicKeySize == 32

UnmarshalEd25519PublicKey(data) ==
    IF Len(data) # Ed25519PublicKeySize
    THEN [pub |-> NilKey, err |-> "InvalidEd25519Key"]
    ELSE [pub |-> PubKey("Ed25519", data), err |-> "nil"]

(***************************************************************************)
(* secp256k1.ParsePubKey and SerializeCompressed.  The curve is            *)
(* y^2 = x^3 + 7 over a prime field; the model keeps the serialisations    *)
(* (a format byte and 32-byte big-endian coordinates) and scales the field *)
(* down to SecpP, a prime for which the curve has no point with y = 0, as  *)
(* for secp256k1.                                                          *)
(***************************************************************************)
SecpP == 13

\* a 32-byte big-endian coordinate: its value, or -1 when it is not below
\* the field prime
FieldVal(b) ==
    IF (\A i \in 1..31 : b[i] = 0) /\ b[32] < SecpP THEN b[32] ELSE -1

FieldBytes(v) == [i \in 1..32 |-> IF i = 32 THEN v ELSE 0]

isOnCurve(x, y) == (y * y) % SecpP = (x * x * x + 7) % SecpP

\* the y of the given parity on the curve at x, or -1
DecompressY(x, odd) ==
    IF \E y \in 0..(SecpP - 1) : isOnCurve(x, y) /\ ((y % 2 = 1) <=> odd)
    THEN CHOOSE y \in 0..(SecpP - 1) : isOnCurve(x, y) /\ ((y % 2 = 1) <=> odd)
    ELSE -1

\* [ok, x, y]
ParsePubKey(ser) ==
    LET bad == [ok |-> FALSE, x |-> 0, y |-> 0] IN
    IF Len(ser) = 65
    THEN LET format == ser[1]
             x == FieldVal(SubSeq(ser, 2, 33))
             y == FieldVal(SubSeq(ser, 34, 65))
         IN  IF format \notin {4, 6, 7} THEN bad
             ELSE IF x = -1 \/ y = -1 THEN bad
             ELSE IF format \in {6, 7} /\ ((y % 2 = 1) # (format = 7)) THEN bad
             ELSE IF ~isOnCurve(x, y) THEN bad
             ELSE [ok |-> TRUE, x |-> x, y |-> y]
    ELSE IF Len(ser) = 33
    THEN LET format == ser[1]
             x == FieldVal(SubSeq(ser, 2, 33))
         IN  IF format \notin {2, 3} THEN bad
             ELSE IF x = -1 THEN bad
             ELSE IF DecompressY(x, format = 3) = -1 THEN bad
             ELSE [ok |-> TRUE, x |-> x, y |-> DecompressY(x, format = 3)]
    ELSE bad

SerializeCompressed(x, y) == <<2 + (y % 2)>> \o FieldBytes(x)

SerializeUncompressed(x, y) == <<4>> \o FieldBytes(x) \o FieldBytes(y)

\* the key's Raw() is the compressed serialisation of the parsed point
UnmarshalSecp256k1PublicKey(data) ==
    LET k == ParsePubKey(data) IN
    IF ~k.ok THEN [pub |-> NilKey, err |-> "InvalidSecp256k1Key"]
    ELSE [pub |-> PubKey("Secp256k1", SerializeCompressed(k.x, k.y)),
          err |-> "nil"]

(***************************************************************************)
(* x509.ParsePKIXPublicKey / MarshalPKIXPublicKey and                      *)
(* crypto.UnmarshalRsaPublicKey.  DER is scaled down to                    *)
(*     SEQUENCE(0x30) length algorithm INTEGER(0x02) length modulus        *)
(* with one-byte lengths, algorithm 1 for rsaEncryption, and a modulus     *)
(* that is positive and minimally encoded.                                 *)
(***************************************************************************)
\* crypto.MinRsaKeyBits, in bytes of the scaled-down modulus
MinRsaKeyBytes == 2

\* [ok, alg, N]
ParsePKIXPublicKey(der) ==
    LET bad == [ok |-> FALSE, alg |-> 0, N |-> <<>>] IN
    IF Len(der) < 6 THEN bad
    ELSE IF der[1] # 48 \/ der[2] # Len(der) - 2 THEN bad
    ELSE IF der[3] \notin {1, 2} THEN bad
    ELSE IF der[4] # 2 \/ der[5] # Len(der) - 5 THEN bad
    ELSE IF der[6] = 0 \/ der[6] >= 128 THEN bad
    ELSE [ok |-> TRUE, alg |-> der[3], N |-> SubSeq(der, 6, Len(der))]

MarshalPKIXPublicKey(alg, N) == <<48, Len(N) + 3, alg, 2, Len(N)>> \o N

UnmarshalRsaPublicKey(b) ==
    LET k == ParsePKIXPublicKey(b) IN
    IF ~k.ok THEN [pub |-> NilKey, err |-> "InvalidRsaKey"]
    ELSE IF k.alg # 1 THEN [pub |-> NilKey, err |-> "InvalidRsaKey"]
    ELSE IF Len(k.N) < MinRsaKeyBytes THEN [pub |-> NilKey, err |-> "InvalidRsaKey"]
    ELSE [pub |-> PubKey("RSA", MarshalPKIXPublicKey(1, k.N)), err |-> "nil"]

(***************************************************************************)
(* key_parser.go.  A DIDKey is the crypto.PubKey it embeds; the zero       *)
(* DIDKey is NilKey.  Results are records [id, err] with err "nil" on      *)
(* success.                                                                *)
(***************************************************************************)
SupportedTypes == {"Ed25519", "RSA", "Secp256k1"}

\* NewKeyDID without the switch on the type: every key is taken
NewKeyDIDAnyType(p) == [id |-> p, err |-> "nil"]

\* lines 31-39
NewKeyDID(p) ==
    IF p.type \in SupportedTypes
    THEN [id |-> p, err |-> "nil"]
    ELSE [id |-> NilKey, err |-> "UnsupportedInputAlgorithm"]

\* MulticodecType with the codes of RSA and Secp256k1 exchanged
MulticodecTypeSwapped(k) ==
    CASE k.type = "RSA" -> MulticodecKindSecp256k1PubKey
      [] k.type = "Ed25519" -> MulticodecKindEd25519PubKey
      [] k.type = "Secp256k1" -> MulticodecKindRSAPubKey
      [] OTHER -> -1

\* lines 41-53; -1 stands for the panic of the default case
MulticodecType(k) ==
    CASE k.type = "RSA" -> MulticodecKindRSAPubKey
      [] k.type = "Ed25519" -> MulticodecKindEd25519PubKey
      [] k.type = "Secp256k1" -> MulticodecKindSecp256k1PubKey
      [] OTHER -> -1

\* lines 62-66 with raw copied one byte early, copy(data[n-1:], raw)
EnvelopeCopyEarly(t, raw) ==
    LET size == UvarintSize(t)
        v == PutUvarint(t)
        n == Len(v) - 1
    IN  [i \in 1..(size + Len(raw)) |->
            IF i <= n THEN v[i]
            ELSE IF i - n <= Len(raw) THEN raw[i - n] ELSE 0]

\* lines 62-66: the buffer of size UvarintSize(t) + len(raw), the varint
\* put at its front and raw copied behind the n bytes PutUvarint wrote
Envelope(t, raw) ==
    LET size == UvarintSize(t)
        v == PutUvarint(t)
        n == Len(v)
    IN  [i \in 1..(size + Len(raw)) |->
            IF i <= n THEN v[i]
            ELSE IF i - n <= Len(raw) THEN raw[i - n] ELSE 0]

\* String with the format "%s%s": no ":" behind the prefix
StringNoColon(k) ==
    IF ~k.rawOK THEN <<>>
    ELSE KeyPrefix \o mbEncode(Base58BTC, Envelope(MulticodecType(k), k.raw))

\* lines 55-74; "" is the empty sequence
String(k) ==
    IF ~k.rawOK THEN <<>>
    ELSE KeyPrefix \o <<":">> \o
         mbEncode(Base58BTC, Envelope(MulticodecType(k), k.raw))

\* VerifyKey that takes a Secp256k1 key of 64 bytes too, an uncompressed
\* point without its format byte
VerifyKeyAlso64(k) ==
    IF ~k.rawOK THEN [val |-> <<>>, err |-> "RawError"]
    ELSE CASE k.type = "RSA" ->
                LET v == ParsePKIXPublicKey(k.raw) IN
                IF ~v.ok THEN [val |-> <<>>, err |-> "InvalidRsaKey"]
                ELSE IF v.alg # 1 THEN [val |-> <<>>, err |-> "InvalidRsaKey"]
                ELSE [val |-> v.N, err |-> "nil"]
           [] k.type = "Ed25519" -> [val |-> k.raw, err |-> "nil"]
           [] k.type = "Secp256k1" ->
                IF Len(k.raw) = 65 \/ Len(k.raw) = 64 \/ Len(k.raw) = 33
                THEN [val |-> k.raw, err |-> "nil"]
                ELSE [val |-> <<>>, err |-> "InvalidSecp256k1KeyLength"]
           [] OTHER -> [val |-> <<>>, err |-> "UnrecognizedKeyType"]

\* lines 76-105: [val, err]; val is the key's bytes (for RSA the modulus of
\* the parsed key), empty on failure
VerifyKey(k) ==
    IF ~k.rawOK THEN [val |-> <<>>, err |-> "RawError"]
    ELSE CASE k.type = "RSA" ->
                LET v == ParsePKIXPublicKey(k.raw) IN
                IF ~v.ok THEN [val |-> <<>>, err |-> "InvalidRsaKey"]
                ELSE IF v.alg # 1 THEN [val |-> <<>>, err |-> "InvalidRsaKey"]
                ELSE [val |-> v.N, err |-> "nil"]
           [] k.type = "Ed25519" -> [val |-> k.raw, err |-> "nil"]
           [] k.type = "Secp256k1" ->
                IF Len(k.raw) = 65 \/ Len(k.raw) = 33
                THEN [val |-> k.raw, err |-> "nil"]
                ELSE [val |-> <<>>, err |-> "InvalidSecp256k1KeyLength"]
           [] OTHER -> [val |-> <<>>, err |-> "UnrecognizedKeyType"]

\* the switch with the Ed25519 case as its default
CaseOfDefaultEd25519(keyType) ==
    CASE keyType = MulticodecKindRSAPubKey -> "RSA"
      [] keyType = MulticodecKindSecp256k1PubKey -> "Secp256k1"
      [] OTHER -> "Ed25519"

\* the switch of lines 130-154 on the multicodec code: the case taken
CaseOf(keyType) ==
    CASE keyType = MulticodecKindRSAPubKey -> "RSA"
      [] keyType = MulticodecKindEd25519PubKey -> "Ed25519"
      [] keyType = MulticodecKindSecp256k1PubKey -> "Secp256k1"
      [] OTHER -> "none"

\* lines 130-156: per case, the unmarshalling of the bytes behind the
\* varint; no case taken is the error of line 156
ParseKey(keyType, keyData) ==
    CASE CaseOf(keyType) = "RSA" ->
            LET r == UnmarshalRsaPublicKey(keyData) IN
            [id |-> r.pub, err |-> r.err]
      [] CaseOf(keyType) = "Ed25519" ->
            LET r == UnmarshalEd25519PublicKey(keyData) IN
            [id |-> r.pub, err |-> r.err]
      [] CaseOf(keyType) = "Secp256k1" ->
            IF Len(keyData) # 33 /\ Len(keyData) # 65
            THEN [id |-> NilKey, err |-> "InvalidSecp256k1KeyLength"]
            ELSE LET r == UnmarshalSecp256k1PublicKey(keyData) IN
                 [id |-> r.pub, err |-> r.err]
      [] OTHER -> [id |-> NilKey, err |-> "UnsupportedAlgorithm"]

\* line 118 wraps the error of mb.Decode: no such encoding is
\* UnsupportedMultibase, a decoder's failure is InvalidEncoding
DecodingMultibase(cause) ==
    IF cause = "ErrUnsupportedEncoding" THEN "UnsupportedMultibase"
    ELSE "InvalidEncoding"

\* lines 116-123 without the check of lines 121-123 on the encoding
DecodeMultibaseAnyBase(s) ==
    LET d == mbDecode(s) IN
    IF d.err # "nil"
    THEN [data |-> <<>>, err |-> DecodingMultibase(d.err)]
    ELSE [data |-> d.data, err |-> "nil"]

\* lines 116-123: [data, err]
DecodeMultibase(s) ==
    LET d == mbDecode(s) IN
    IF d.err # "nil"
    THEN [data |-> <<>>, err |-> DecodingMultibase(d.err)]
    ELSE IF d.enc # Base58BTC
    THEN [data |-> <<>>, err |-> "UnsupportedMultibase"]
    ELSE [data |-> d.data, err |-> "nil"]

\* lines 107-157
Parse(keystr0) ==
    IF ~HasPrefix(keystr0, KeyPrefix)
    THEN [id |-> NilKey, err |-> "BadPrefix"]
    ELSE LET d == DecodeMultibase(TrimPrefix(keystr0, KeyPrefix \o <<":">>)) IN
         IF d.err # "nil"
         THEN [id |-> NilKey, err |-> d.err]
         ELSE LET v == FromUvarint(d.data) IN
              IF v.err # "nil"
              THEN [id |-> NilKey, err |-> "MalformedVarint"]
              ELSE ParseKey(v.val, SubSeq(d.data, v.n + 1, Len(d.data)))

(***************************************************************************)
(* The inputs: keys handed to NewKeyDID and strings handed to Parse.       *)
(***************************************************************************)
Pattern(n, p) == [i \in 1..n |-> (p * i) % 256]

Patterns == 0..NumPatterns

CurvePoints ==
    {pt \in (0..(SecpP - 1)) \X (0..(SecpP - 1)) : isOnCurve(pt[1], pt[2])}

\* the lengths around the key sizes of the three algorithms
RawLens == {0, 31, 32, 33, 64, 65, 66}

\* serialised secp256k1 keys: compressed, uncompressed and hybrid points,
\* and well-formed serialisations of no point, the first of them what the
\* zero Secp256k1PublicKey serialises to (the curve has no point at x = 0)
SecpSerialized ==
    {SerializeCompressed(pt[1], pt[2]) : pt \in CurvePoints}
    \cup {SerializeUncompressed(pt[1], pt[2]) : pt \in CurvePoints}
    \cup {<<6 + (pt[2] % 2)>> \o FieldBytes(pt[1]) \o FieldBytes(pt[2]) :
             pt \in {q \in CurvePoints : q[1] = 7}}
    \cup {<<2>> \o FieldBytes(0), <<2>> \o FieldBytes(1),
          <<4>> \o FieldBytes(1) \o FieldBytes(1), <<3>> \o FieldBytes(SecpP)}

\* SubjectPublicKeyInfo of RSA keys, of a key that is too small, of a key
\* of another algorithm, and bytes that are no SubjectPublicKeyInfo
RsaSerialized ==
    {MarshalPKIXPublicKey(1, <<p + 1, 7, 9>>) : p \in Patterns}
    \cup {MarshalPKIXPublicKey(1, <<5>>), MarshalPKIXPublicKey(2, <<1, 7, 9>>),
          <<48, 6, 1, 2, 3, 0, 7, 9>>, <<48, 9, 1, 2, 3, 1, 7, 9>>}

RawBytes ==
    {Pattern(n, p) : n \in RawLens, p \in Patterns}
    \cup SecpSerialized \cup RsaSerialized

\* what the keys return as Raw(): RawBytes but for the SubjectPublicKeyInfo
\* of a key too small and of a key of another algorithm, which only reach
\* Parse, in a string
KeyRaws ==
    RawBytes \ {MarshalPKIXPublicKey(1, <<5>>),
                MarshalPKIXPublicKey(2, <<1, 7, 9>>)}

\* keys of the three algorithms and of one more, with any bytes as Raw(),
\* and keys whose Raw() fails: a nil *Secp256k1PublicKey and a nil
\* *RsaPublicKey report their type, and their Raw() returns the panic it
\* recovered from as an error
PubKeys ==
    {PubKey(t, r) : t \in SupportedTypes \cup {"ECDSA"}, r \in KeyRaws}
    \cup {[type |-> t, raw |-> <<>>, rawOK |-> FALSE] :
             t \in {"Secp256k1", "RSA"}}

\* multicodec codes: the three of the table, 0x9999, 0, 0xec and 0x1207
Tags == {MulticodecKindEd25519PubKey, MulticodecKindRSAPubKey,
         MulticodecKindSecp256k1PubKey, 39321, 0, 236, 4615}

\* truncated, not minimal, and longer than nine bytes
MalformedVarints ==
    {<<128>>, <<237>>, <<129, 0>>,
     <<128, 128, 128, 128, 128, 128, 128, 128, 128, 1>>}

Envelopes ==
    {PutUvarint(t) \o r : t \in Tags, r \in RawBytes}
    \cup MalformedVarints
    \cup {v \o Pattern(32, 0) : v \in MalformedVarints \ {<<237>>}}

DidKeyColon == KeyPrefix \o <<":">>

WellFormed == {DidKeyColon \o mbEncode(Base58BTC, e) : e \in Envelopes}

\* envelopes whose text is varied in prefix and in multibase
SampleEnvelopes ==
    {PutUvarint(MulticodecKindEd25519PubKey) \o Pattern(32, 0),
     PutUvarint(MulticodecKindSecp256k1PubKey) \o Pattern(32, 1),
     PutUvarint(39321), <<128>>}

OtherPrefixes ==
    {KeyPrefix, <<>>, <<"d", "i", "d", ":", "k", "e">>,
     <<"d", "i", "d", ":", "w", "e", "b", ":">>,
     <<"e", "x", "a", "m", "p", "l", "e", ":">>,
     KeyPrefix \o <<"s", ":">>}

BadPrefixed ==
    {p \o mbEncode(Base58BTC, e) : p \in OtherPrefixes, e \in SampleEnvelopes}
    \cup {p \o <<"f", "o", "o">> : p \in OtherPrefixes}
    \cup {KeyPrefix, DidKeyColon}

\* a selector other than "z" before valid and invalid text, and "z" before
\* text that is not base58
OtherMultibase ==
    {DidKeyColon \o <<c>> \o body :
        c \in {"f", "F", "Q"},
        body \in {HexEncode(e) : e \in SampleEnvelopes}
                 \cup {B58Encode(e) : e \in SampleEnvelopes}
                 \cup {<<>>, <<"0">>, <<"z", "z">>}}
    \cup {DidKeyColon \o <<"z">> \o body :
        body \in {B58Encode(e) \o <<c>> : e \in SampleEnvelopes,
                                           c \in {"0", "O", "I", "l", "-"}}}

ParseInputs == WellFormed \cup BadPrefixed \cup OtherMultibase

(***************************************************************************)
(* The state: a caller's variables.  pc names the last call made.          *)
(***************************************************************************)
VARIABLES
    pc,       \* "start", or the function called last
    pub,      \* the key given to NewKeyDID (NilKey when none was)
    keystr,   \* the string given to Parse last (empty when none was)
    id,       \* the DIDKey returned last by NewKeyDID or Parse
    err,      \* the error returned with it
    from,     \* which of the two returned id: "NewKeyDID", "Parse", "none"
    str,      \* what id.String() returned last
    encoded,  \* the DIDKey str was taken from
    tag,      \* what id.MulticodecType() returned last
    vk        \* what id.VerifyKey() returned last

vars == <<pc, pub, keystr, id, err, from, str, encoded, tag, vk>>

NoVk == [val |-> <<>>, err |-> "none"]

Init ==
    /\ pc = "start"
    /\ pub = NilKey
    /\ keystr = <<>>
    /\ id = NilKey
    /\ err = "nil"
    /\ from = "none"
    /\ str = <<>>
    /\ encoded = NilKey
    /\ tag = 0
    /\ vk = NoVk

\* id, err := NewKeyDID(p)
DoNewKeyDID ==
    /\ pc = "start"
    /\ \E p \in PubKeys :
          /\ pub' = p
          /\ id' = NewKeyDID(p).id
          /\ err' = NewKeyDID(p).err
    /\ pc' = "NewKeyDID"
    /\ from' = "NewKeyDID"
    /\ UNCHANGED <<keystr, str, encoded, tag, vk>>

\* id, err := Parse(s) on a string from outside
DoParse ==
    /\ pc = "start"
    /\ \E s \in ParseInputs :
          /\ keystr' = s
          /\ id' = Parse(s).id
          /\ err' = Parse(s).err
    /\ pc' = "Parse"
    /\ from' = "Parse"
    /\ UNCHANGED <<pub, str, encoded, tag, vk>>

\* id, err := Parse(str) on the string String() returned
DoParseEncoded ==
    /\ pc = "String"
    /\ keystr' = str
    /\ id' = Parse(str).id
    /\ err' = Parse(str).err
    /\ pc' = "Parse"
    /\ from' = "Parse"
    /\ UNCHANGED <<pub, str, encoded, tag, vk>>

\* str := id.String(); a DIDKey that holds a key
DoString ==
    /\ pc \in {"NewKeyDID", "Parse", "MulticodecType", "VerifyKey"}
    /\ id # NilKey
    /\ str' = String(id)
    /\ encoded' = id
    /\ pc' = "String"
    /\ UNCHANGED <<pub, keystr, id, err, from, tag, vk>>

\* tag := id.MulticodecType()
DoMulticodecType ==
    /\ pc \in {"NewKeyDID", "Parse"}
    /\ id # NilKey
    /\ tag' = MulticodecType(id)
    /\ pc' = "MulticodecType"
    /\ UNCHANGED <<pub, keystr, id, err, from, str, encoded, vk>>

\* vk := id.VerifyKey()
DoVerifyKey ==
    /\ pc \in {"NewKeyDID", "Parse"}
    /\ id # NilKey
    /\ vk' = VerifyKey(id)
    /\ pc' = "VerifyKey"
    /\ UNCHANGED <<pub, keystr, id, err, from, str, encoded, tag>>

Next ==
    \/ DoNewKeyDID
    \/ DoParse
    \/ DoParseEncoded
    \/ DoString
    \/ DoMulticodecType
    \/ DoVerifyKey

Spec == Init /\ [][Next]_vars

(***************************************************************************)
(* Notions the properties are stated in.                                   *)
(***************************************************************************)
\* the shape rule of an algorithm's raw bytes
ShapeOK(t, raw) ==
    CASE t = "Ed25519" -> Len(raw) = 32
      [] t = "Secp256k1" -> Len(raw) \in {33, 65}
      [] t = "RSA" -> ParsePKIXPublicKey(raw).ok
      [] OTHER -> FALSE

\* the type-tag table
TagTable(t) ==
    CASE t = "Ed25519" -> 237
      [] t = "RSA" -> 4613
      [] t = "Secp256k1" -> 4614
      [] OTHER -> -1

\* raw is the compressed serialisation of a point of the curve
IsCompressedPoint(raw) ==
    \E pt \in CurvePoints : raw = SerializeCompressed(pt[1], pt[2])

\* raw is a 65-byte (uncompressed or hybrid) serialisation of the point pt
Is65Of(raw, pt) ==
    /\ Len(raw) = 65
    /\ raw[1] \in {4, 6 + (pt[2] % 2)}
    /\ SubSeq(raw, 2, 65) = FieldBytes(pt[1]) \o FieldBytes(pt[2])

\* raw bytes that the key library itself gives a key of type t
LibraryRaw(t, raw) ==
    CASE t = "Ed25519" -> Len(raw) = 32
      [] t = "Secp256k1" -> IsCompressedPoint(raw)
      [] t = "RSA" -> /\ ParsePKIXPublicKey(raw).ok
                      /\ ParsePKIXPublicKey(raw).alg = 1
                      /\ Len(ParsePKIXPublicKey(raw).N) >= MinRsaKeyBytes
      [] OTHER -> FALSE

\* the text "did:key:z" + base58btc(varint(tag) || raw)
DidKeyText(t, raw) ==
    DidKeyColon \o <<"z">> \o B58Encode(PutUvarint(TagTable(t)) \o raw)

\* the last Parse was of the string String() returned for `encoded`
ParsedEncoded ==
    /\ pc = "Parse"
    /\ encoded # NilKey
    /\ encoded.rawOK
    /\ keystr = str

C2_TagTableInverse ==
    /\ \A t \in SupportedTypes :
          /\ MulticodecType(PubKey(t, <<>>)) = TagTable(t)
          /\ CaseOf(MulticodecType(PubKey(t, <<>>))) = t
    /\ \A t, u \in SupportedTypes :
          MulticodecType(PubKey(t, <<>>)) = MulticodecType(PubKey(u, <<>>))
              => t = u
    /\ pc = "MulticodecType" =>
          /\ tag = TagTable(id.type)
          /\ CaseOf(tag) = id.type

\* MulticodecType was called on an RSA identifier that Parse returned
C2_Witness ==
    /\ pc = "MulticodecType"
    /\ from = "Parse"
    /\ id.type = "RSA"
    /\ tag = 4613

(***************************************************************************)
(* C3.  The text String() returns.                                         *)
(***************************************************************************)
\* C3 as claimed: for every identifier from NewKeyDID or Parse, String()
\* returns "did:key:" and the base58btc multibase text of varint(tag) || raw,
\* which begins with "did:key:z", and never another string.
C3_StringAlwaysText ==
    pc = "String" =>
        /\ str = DidKeyText(encoded.type, encoded.raw)
        /\ HasPrefix(str, DidKeyColon \o <<"z">>)
        /\ str # <<>>

\* C3 as amended: for every identifier from NewKeyDID or Parse whose key's
\* Raw() succeeds, as it does for every identifier from Parse, String()
\* returns that text; when Raw() fails, String() returns the empty string.
C3_StringTextUnlessRawFails ==
    /\ pc = "String" =>
          IF encoded.rawOK
          THEN /\ str = DidKeyText(encoded.type, encoded.raw)
               /\ HasPrefix(str, DidKeyColon \o <<"z">>)
          ELSE str = <<>>
    /\ (from = "Parse" /\ id # NilKey) => id.rawOK

\* String() was called on an Ed25519 identifier that Parse returned
C3_Witness ==
    /\ pc = "String"
    /\ from = "Parse"
    /\ encoded.type = "Ed25519"
    /\ HasPrefix(str, DidKeyColon \o <<"z">>)

(***************************************************************************)
(* C4.  Strings that do not begin with "did:key:".                         *)
(***************************************************************************)
\* C4: for every string that does not begin with "did:key:", the prefix
\* absent or the ":" behind it missing, Parse fails with BadPrefix.
C4_BadPrefix ==
    (pc = "Parse" /\ ~HasPrefix(keystr, DidKeyColon)) =>
        /\ err = "BadPrefix"
        /\ id = NilKey

\* what holds instead of C4: without "did:key" at its front a string fails
\* with BadPrefix; with "did:key" and no ":" behind it, with the error
\* mb.Decode gives for the selector "d"
C4_AsCoded ==
    pc = "Parse" =>
        /\ ~HasPrefix(keystr, KeyPrefix) => err = "BadPrefix"
        /\ (HasPrefix(keystr, KeyPrefix) /\ ~HasPrefix(keystr, DidKeyColon))
              => err = "UnsupportedMultibase"

(***************************************************************************)
(* C5.  A multibase selector other than "z".                               *)
(***************************************************************************)
\* the string is "did:key:" and at least a selector character
HasSelector == HasPrefix(keystr, DidKeyColon) /\ Len(keystr) >= 9

\* C5: for every string "did:key:" + c + rest with c other than "z", Parse
\* fails with UnsupportedMultibase whatever rest is, and InvalidEncoding is
\* reported only when the selector is "z".
C5_WrongSelector ==
    (pc = "Parse" /\ HasSelector) =>
        /\ keystr[9] # "z" => err = "UnsupportedMultibase"
        /\ err = "InvalidEncoding" => keystr[9] = "z"

\* what holds instead of C5: a selector other than "z" fails in the
\* multibase stage, with either of its two errors
C5_AsCoded ==
    (pc = "Parse" /\ HasSelector /\ keystr[9] # "z") =>
        /\ err \in {"UnsupportedMultibase", "InvalidEncoding"}
        /\ id = NilKey

(***************************************************************************)
(* C6.  An unknown tag.                                                    *)
(***************************************************************************)
\* the bytes the string carries, when it is "did:key:z" and base58 text
CarriedBytes == B58Decode(SubSeq(keystr, 10, Len(keystr)))

\* the string is well formed up to a varint that is none of the three tags
CarriesUnknownTag ==
    /\ HasPrefix(keystr, DidKeyColon \o <<"z">>)
    /\ CarriedBytes.err = "nil"
    /\ FromUvarint(CarriedBytes.data).err = "nil"
    /\ FromUvarint(CarriedBytes.data).val \notin {237, 4613, 4614}

\* C6: for every well-formed string whose envelope begins with a valid
\* varint that is none of 0xed, 0x1205, 0x1206, Parse fails with
\* UnsupportedAlgorithm whatever bytes follow, and returns no identifier.
C6_UnknownTag ==
    (pc = "Parse" /\ CarriesUnknownTag) =>
        /\ err = "UnsupportedAlgorithm"
        /\ id = NilKey

\* Parse was given the tag 0x9999 with nothing behind it
C6_Witness ==
    /\ pc = "Parse"
    /\ keystr = DidKeyColon \o mbEncode(Base58BTC, PutUvarint(39321))
    /\ err = "UnsupportedAlgorithm"

(***************************************************************************)
(* C7.  The length gate of VerifyKey for Secp256k1.                        *)
(***************************************************************************)
\* C7: for a Secp256k1 key with raw bytes b, VerifyKey succeeds and returns
\* b exactly when len(b) is 33 or 65, and fails with
\* InvalidSecp256k1KeyLength for every other length.
C7_Secp256k1LengthGate ==
    (pc = "VerifyKey" /\ id.type = "Secp256k1" /\ id.rawOK) =>
        IF Len(id.raw) \in {33, 65}
        THEN vk.err = "nil" /\ vk.val = id.raw
        ELSE vk.err = "InvalidSecp256k1KeyLength" /\ vk.val = <<>>

\* VerifyKey refused a Secp256k1 key of 64 bytes
C7_Witness ==
    /\ pc = "VerifyKey"
    /\ id.type = "Secp256k1"
    /\ Len(id.raw) = 64
    /\ vk.err = "InvalidSecp256k1KeyLength"

(***************************************************************************)
(* C8.  The shape of a constructed identifier.                             *)
(***************************************************************************)
\* C8 as claimed: every identifier constructed by NewKeyDID or by Parse has
\* raw bytes that satisfy the shape rule of its algorithm; construction
\* fails instead of returning one that does not.
C8_ShapeAlways ==
    id # NilKey => (id.rawOK /\ ShapeOK(id.type, id.raw))

\* C8 as amended: every identifier Parse returns has raw bytes that satisfy
\* the shape rule of its algorithm, and Parse returns the zero identifier
\* with every error.  NewKeyDID validates the key's type only: it returns
\* the key as the identifier, whatever its raw bytes, when the type is
\* Ed25519, RSA or Secp256k1, and fails with the zero identifier otherwise.
C8_ShapeFromParse ==
    /\ (from = "Parse" /\ id # NilKey) =>
          (id.rawOK /\ ShapeOK(id.type, id.raw))
    /\ from = "Parse" => (err = "nil" <=> id # NilKey)
    /\ from = "NewKeyDID" =>
          IF pub.type \in {"Ed25519", "RSA", "Secp256k1"}
          THEN id = pub /\ err = "nil"
          ELSE id = NilKey /\ err = "UnsupportedInputAlgorithm"

\* Parse returned a Secp256k1 identifier for a string that carries 65 bytes
C8_Witness ==
    /\ pc = "Parse"
    /\ id.type = "Secp256k1"
    /\ HasPrefix(keystr, DidKeyColon \o <<"z">>)
    /\ Len(CarriedBytes.data) = 67

(***************************************************************************)
(* C9.  The stages of Parse.                                               *)
(***************************************************************************)
\* the first of the stages prefix, multibase, varint, tag, shape that the
\* string fails, "none" when it passes all five; the prefix is "did:key:"
FirstFailingStage(s) ==
    IF ~HasPrefix(s, DidKeyColon) THEN "prefix"
    ELSE LET d == mbDecode(SubSeq(s, 9, Len(s))) IN
         IF d.err # "nil" \/ d.enc # "z" THEN "multibase"
         ELSE LET v == FromUvarint(d.data) IN
              IF v.err # "nil" THEN "varint"
              ELSE IF v.val \notin {237, 4613, 4614} THEN "tag"
              ELSE LET body == SubSeq(d.data, v.n + 1, Len(d.data)) IN
                   IF \/ v.val = 237 /\ UnmarshalEd25519PublicKey(body).err # "nil"
                      \/ v.val = 4613 /\ UnmarshalRsaPublicKey(body).err # "nil"
                      \/ v.val = 4614 /\
                            UnmarshalSecp256k1PublicKey(body).err # "nil"
                   THEN "shape"
                   ELSE "none"

\* the stage an error belongs to
StageOf(e) ==
    CASE e = "nil" -> "none"
      [] e = "BadPrefix" -> "prefix"
      [] e \in {"UnsupportedMultibase", "InvalidEncoding"} -> "multibase"
      [] e = "MalformedVarint" -> "varint"
      [] e = "UnsupportedAlgorithm" -> "tag"
      [] OTHER -> "shape"

\* C9: Parse returns an identifier if and only if the string passes all
\* five stages, and otherwise the zero identifier with the error of the
\* first stage the string fails.
C9_FirstFailingStage ==
    pc = "Parse" =>
        /\ StageOf(err) = FirstFailingStage(keystr)
        /\ id # NilKey <=> FirstFailingStage(keystr) = "none"

\* what holds instead of C9: the same, but for the strings that begin with
\* "did:key" and not with "did:key:"
C9_AsCoded ==
    (pc = "Parse" /\ (HasPrefix(keystr, DidKeyColon) \/ ~HasPrefix(keystr, KeyPrefix)))
        => /\ StageOf(err) = FirstFailingStage(keystr)
           /\ id # NilKey <=> FirstFailingStage(keystr) = "none"

(***************************************************************************)
(* C10.  Re-encoding what Parse accepted.                                  *)
(***************************************************************************)
\* String() was called on the identifier Parse returned for keystr, a
\* string from outside
ReEncoded ==
    /\ pc = "String"
    /\ from = "Parse"
    /\ pub = NilKey
    /\ encoded = id

\* the bytes behind the varint in the string Parse accepted
CarriedKey ==
    SubSeq(CarriedBytes.data, FromUvarint(CarriedBytes.data).n + 1,
           Len(CarriedBytes.data))

=============================================================================
